---- MODULE Spec2Model ----
(***************************************************************************)
(* Model of align-and-compare.py: the pipeline that reconciles an          *)
(* unaccelerated (reference) recording with an accelerated (target) one.   *)
(*   normalise the two inputs  ->  align (pairwise2 globalxx or DTW,       *)
(*   through a pickle cache)   ->  build matched_events_by_unaccel_ticks   *)
(*   ->  compute_acceleration_by_matches  ->  visualize_observed_velocities*)
(* Characters are modelled by their code points (chr/ord), times by        *)
(* integers in the unit the branch uses (microseconds*ticks_per_beat for   *)
(* MIDI, chroma bins for audio), velocities by exact fractions.            *)
(***************************************************************************)
EXTENDS Integers, Sequences, FiniteSets, TLC

(***************************************************************************)
(* Bounds of the model                                                     *)
(***************************************************************************)
MaxRefNotes == 3
MaxTgtNotes == 2
MaxRefBins == 5
MaxTgtBins == 7
MaxRuns == 2
MaxTime == 3
MaxMessages == 4

(***************************************************************************)
(* Program constants                                                       *)
(***************************************************************************)
HYPHEN == 45
TILDE == 126
FirstNamedNote == 21
LastNamedNote == 108
FootTicks == 3600
FineInterval == 1
unaccel_tps == 433
hop_length == 1024
sample_rate == 22050
NoteOnLevel == 7
NoteOffLevel == 5

gap_char == HYPHEN

(***************************************************************************)
(* Generic helpers                                                         *)
(***************************************************************************)
Max2(a, b) == IF a >= b THEN a ELSE b

Range(s) == {s[k] : k \in 1..Len(s)}

Reverse(s) == [k \in 1..Len(s) |-> s[Len(s) + 1 - k]]

Last(s) == s[Len(s)]

SeqsUpTo(S, n) == UNION {[1..k -> S] : k \in 0..n}

Abs(x) == IF x < 0 THEN -x ELSE x

(***************************************************************************)
(* Events are (note, tick, time) tuples: item[0], item[1], item[2].        *)
(***************************************************************************)
EvNote(e) == e[1]
EvTick(e) == e[2]
EvTime(e) == e[3]

(* list.sort(key=operator.itemgetter(1, 0)): a stable insertion sort by    *)
(* (tick, note).                                                           *)
(* Fault variant: the sort key taken as (note, tick). *)
KeyLE_NoteFirst(e, f) ==
    EvNote(e) < EvNote(f) \/ (EvNote(e) = EvNote(f) /\ EvTick(e) <= EvTick(f))

KeyLE(e, f) == EvTick(e) < EvTick(f) \/ (EvTick(e) = EvTick(f) /\ EvNote(e) <= EvNote(f))

RECURSIVE InsertSorted(_, _)
InsertSorted(sorted, e) ==
    IF sorted = <<>> THEN <<e>>
    ELSE IF KeyLE(Last(sorted), e) THEN Append(sorted, e)
    ELSE Append(InsertSorted(SubSeq(sorted, 1, Len(sorted) - 1), e), Last(sorted))

RECURSIVE SortFrom(_, _, _)
SortFrom(events, k, sorted) ==
    IF k > Len(events) THEN sorted
    ELSE SortFrom(events, k + 1, InsertSorted(sorted, events[k]))

SortEvents(events) == SortFrom(events, 1, <<>>)

(***************************************************************************)
(* get_midi_timings: a MIDI file is its merged track, a sequence of        *)
(* messages [type, time (delta ticks), note, tempo].  tick2second(t, tpb,  *)
(* tempo) = t * tempo * 1e-6 / tpb; times are kept in units of 1e-6/tpb s. *)
(***************************************************************************)
NoteOn(delta, note) == [type |-> "note_on", time |-> delta, note |-> note, tempo |-> 0]
SetTempo(delta, tempo) == [type |-> "set_tempo", time |-> delta, note |-> 0, tempo |-> tempo]

tick2second(ticks, tempo) == ticks * tempo

RECURSIVE MidiLoop(_, _, _, _, _, _, _, _)
MidiLoop(track, k, current_tick, current_tempo, current_tempo_start_tick, seconds_before_current_tempo, use_chroma_numbers, note_events) ==
    IF k > Len(track) THEN note_events
    ELSE
      LET event == track[k]
          tick == current_tick + event.time
      IN  IF event.type = "set_tempo" THEN
            MidiLoop(track, k + 1, tick, event.tempo, tick,
                     seconds_before_current_tempo
                       + tick2second(tick - current_tempo_start_tick, current_tempo),
                     use_chroma_numbers, note_events)
          ELSE IF event.type = "note_on" THEN
            MidiLoop(track, k + 1, tick, current_tempo, current_tempo_start_tick,
                     seconds_before_current_tempo, use_chroma_numbers,
                     Append(note_events,
                            << IF use_chroma_numbers THEN event.note % 12 ELSE event.note,
                               tick,
                               seconds_before_current_tempo
                                 + tick2second(tick - current_tempo_start_tick, current_tempo) >>))
          ELSE
            MidiLoop(track, k + 1, tick, current_tempo, current_tempo_start_tick,
                     seconds_before_current_tempo, use_chroma_numbers, note_events)

(* Line 170 formats event_time_in_seconds, which is unbound when the track *)
(* holds no note_on message.                                               *)
MidiTimingsRaises(track) == \A k \in 1..Len(track) : track[k].type # "note_on"

get_midi_timings(track, use_chroma_numbers) ==
    SortEvents(MidiLoop(track, 1, 0, 0, 0, 0, use_chroma_numbers, <<>>))

(***************************************************************************)
(* get_note_timings of compare_midi_timings.py, lines 73-119: the events   *)
(* are (note, delta, tick, time) tuples, the time of a note is             *)
(* tick2second of its absolute tick at the tempo in force, and the list is *)
(* sorted by (tick, note).                                                 *)
(***************************************************************************)
RECURSIVE NoteTimingsLoop(_, _, _, _, _)
NoteTimingsLoop(track, k, current_tick, current_tempo, note_events) ==
    IF k > Len(track) THEN note_events
    ELSE
      LET event == track[k]
          tick == current_tick + event.time
      IN  IF event.type = "set_tempo" THEN
            NoteTimingsLoop(track, k + 1, tick, event.tempo, note_events)
          ELSE IF event.type = "note_on" THEN
            NoteTimingsLoop(track, k + 1, tick, current_tempo,
                            Append(note_events,
                                   <<event.note, event.time, tick,
                                     tick2second(tick, current_tempo)>>))
          ELSE
            NoteTimingsLoop(track, k + 1, tick, current_tempo, note_events)

NoteTimingKeyLE(e, f) == e[3] < f[3] \/ (e[3] = f[3] /\ e[1] <= f[1])

RECURSIVE InsertNoteTiming(_, _)
InsertNoteTiming(sorted, e) ==
    IF sorted = <<>> THEN <<e>>
    ELSE IF NoteTimingKeyLE(Last(sorted), e) THEN Append(sorted, e)
    ELSE Append(InsertNoteTiming(SubSeq(sorted, 1, Len(sorted) - 1), e), Last(sorted))

RECURSIVE SortNoteTimings(_, _, _)
SortNoteTimings(events, k, sorted) ==
    IF k > Len(events) THEN sorted
    ELSE SortNoteTimings(events, k + 1, InsertNoteTiming(sorted, events[k]))

get_note_timings(track) == SortNoteTimings(NoteTimingsLoop(track, 1, 0, 0, <<>>), 1, <<>>)

(***************************************************************************)
(* get_chroma_timings: audio is modelled by one active chroma channel      *)
(* (pitch class 0); its value per time bin is kept in tenths, the other    *)
(* eleven channels stay silent.  A note event starts when the value rises  *)
(* above 0.7 and the channel is released when it falls below 0.5.          *)
(* ticks_per_second is None in the call, so the tick is the bin number.    *)
(***************************************************************************)
RECURSIVE ChromaLoop(_, _, _, _)
ChromaLoop(chroma, x, note_on, note_events) ==
    IF x > Len(chroma) THEN note_events
    ELSE
      LET bin_value == chroma[x]
      IN  IF ~note_on /\ bin_value > NoteOnLevel THEN
            ChromaLoop(chroma, x + 1, TRUE, Append(note_events, <<0, x - 1, x - 1>>))
          ELSE IF note_on /\ bin_value < NoteOffLevel THEN
            ChromaLoop(chroma, x + 1, FALSE, note_events)
          ELSE ChromaLoop(chroma, x + 1, note_on, note_events)

get_chroma_timings(chroma) == SortEvents(ChromaLoop(chroma, 1, FALSE, <<>>))

(***************************************************************************)
(* The category-as-character encoding of lines 641-644 and its decoding    *)
(* at lines 701, 707, 713, 714.  A character is its code point.            *)
(***************************************************************************)
NoteToChar(note) == IF note = HYPHEN THEN TILDE ELSE note

CharToNote(item) == IF item = TILDE THEN HYPHEN ELSE item

Chars(events) == [k \in 1..Len(events) |-> NoteToChar(EvNote(events[k]))]

(* midiNumberNames holds the 88 piano keys only. *)
HasNoteName(midi_number) == midi_number >= FirstNamedNote /\ midi_number <= LastNamedNote

(***************************************************************************)
(* pairwise2.align.globalxx(unaccel_chars, accel_chars, gap_char=["-"],    *)
(* one_alignment_only=True): global alignment, match 1, mismatch 0, no gap *)
(* penalties.  The score matrix and the binary-coded trace matrix are      *)
(* filled row by row (1 open gap in seqA, 2 match/mismatch, 4 open gap in  *)
(* seqB, 8 extend gap in seqA, 16 extend gap in seqB), then one alignment  *)
(* is recovered by the stack-driven backtrace from the last cell.          *)
(***************************************************************************)
(* Fault variant: a mismatch scores like a match. *)
any_match(a, b) == 1

identity_match(a, b) == IF a = b THEN 1 ELSE 0

Cells(A, B) == (0..Len(A)) \X (0..Len(B))

InitMatrices(A, B) ==
    [score |-> [c \in Cells(A, B) |-> 0],
     trace |-> [c \in Cells(A, B) |-> 0],
     row_score |-> 0,
     col_score |-> [c \in 0..Len(B) |-> 0]]

ScoreCell(A, B, row, col, m) ==
    LET nogap_score == m.score[<<row - 1, col - 1>>] + identity_match(A[row], B[col])
        row_open == m.score[<<row, col - 1>>]
        row_extend == m.row_score
        row_score == Max2(row_open, row_extend)
        col_open == m.score[<<row - 1, col>>]
        col_extend == m.col_score[col]
        col_score == Max2(col_open, col_extend)
        best_score == Max2(nogap_score, Max2(col_score, row_score))
        row_trace_score == (IF row_open = row_score THEN 1 ELSE 0)
                             + (IF row_extend = row_score THEN 8 ELSE 0)
        col_trace_score == (IF col_open = col_score THEN 4 ELSE 0)
                             + (IF col_extend = col_score THEN 16 ELSE 0)
        trace_score == (IF nogap_score = best_score THEN 2 ELSE 0)
                         + (IF row_score = best_score THEN row_trace_score ELSE 0)
                         + (IF col_score = best_score THEN col_trace_score ELSE 0)
    IN  [score |-> [m.score EXCEPT ![<<row, col>>] = best_score],
         trace |-> [m.trace EXCEPT ![<<row, col>>] = trace_score],
         row_score |-> row_score,
         col_score |-> [m.col_score EXCEPT ![col] = col_score]]

RECURSIVE make_score_matrix(_, _, _, _, _)
make_score_matrix(A, B, row, col, m) ==
    IF row > Len(A) THEN m
    ELSE IF col > Len(B) THEN make_score_matrix(A, B, row + 1, 1, [m EXCEPT !.row_score = 0])
    ELSE make_score_matrix(A, B, row, col + 1, ScoreCell(A, B, row, col, m))

Gaps(n) == [k \in 1..n |-> gap_char]

(* sequence[k - 1::-1]: the first k items, last first *)
RestReversed(s, k) == [j \in 1..k |-> s[k + 1 - j]]

(* Fault variant: the rest of the longer sequence is added without gaps. *)
finish_backtrace_unpadded(A, B, ali_seqA, ali_seqB, row, col) ==
    <<ali_seqA \o RestReversed(A, row), ali_seqB \o RestReversed(B, col)>>

finish_backtrace(A, B, ali_seqA, ali_seqB, row, col) ==
    LET a == ali_seqA \o RestReversed(A, row)
        b == ali_seqB \o RestReversed(B, col)
    IN  IF row > col THEN <<a, b \o Gaps(Len(a) - Len(b))>>
        ELSE IF col > row THEN <<a \o Gaps(Len(b) - Len(a)), b>>
        ELSE <<a, b>>

(* _find_gap_open: walk an extended gap back to its possible opening       *)
(* points, pushing each onto in_process.  w = [a, b, row, col, col_gap,    *)
(* in_process, dead_end].                                                  *)
RECURSIVE find_gap_open(_, _, _, _, _, _, _, _)
find_gap_open(A, B, m, w, target_score, direction, target, n) ==
    IF n >= target THEN w
    ELSE
      LET row == IF direction = "col" THEN w.row ELSE w.row - 1
          col == IF direction = "col" THEN w.col - 1 ELSE w.col
          a == Append(w.a, IF direction = "col" THEN gap_char ELSE A[row + 1])
          b == Append(w.b, IF direction = "col" THEN B[col + 1] ELSE gap_char)
          here == m.trace[<<row, col>>]
          moved == [w EXCEPT !.a = a, !.b = b, !.row = row, !.col = col]
          opens == m.score[<<row, col>>] = target_score /\ n > 0
      IN  IF opens /\ here = 0 THEN moved
          ELSE
            LET pushed == IF opens
                          THEN [moved EXCEPT !.in_process =
                                  Append(@, [a |-> a, b |-> b, row |-> row, col |-> col,
                                             col_gap |-> w.col_gap, trace |-> here])]
                          ELSE moved
            IN  find_gap_open(A, B, m,
                              IF here = 0 THEN [pushed EXCEPT !.dead_end = TRUE] ELSE pushed,
                              target_score, direction, target, n + 1)

(* One pass of the inner while loop of _recover_alignments on the path c = *)
(* [a, b, row, col, col_gap, trace]; the result is the path after the      *)
(* step, the stack and dead_end.                                           *)
BacktraceStep(A, B, m, c, in_process) ==
    LET w0 == [a |-> c.a, b |-> c.b, row |-> c.row, col |-> c.col, col_gap |-> c.col_gap,
               in_process |-> in_process, dead_end |-> FALSE]
    IN  IF c.trace % 2 = 1 THEN
          [rest |-> c.trace - 1,
           w |-> IF c.col_gap THEN [w0 EXCEPT !.dead_end = TRUE]
                 ELSE [w0 EXCEPT !.col = c.col - 1, !.a = Append(c.a, gap_char),
                                 !.b = Append(c.b, B[c.col]), !.col_gap = FALSE]]
        ELSE IF c.trace % 4 = 2 THEN
          [rest |-> c.trace - 2,
           w |-> [w0 EXCEPT !.row = c.row - 1, !.col = c.col - 1,
                            !.a = Append(c.a, A[c.row]), !.b = Append(c.b, B[c.col]),
                            !.col_gap = FALSE]]
        ELSE IF c.trace % 8 = 4 THEN
          [rest |-> c.trace - 4,
           w |-> [w0 EXCEPT !.row = c.row - 1, !.a = Append(c.a, A[c.row]),
                            !.b = Append(c.b, gap_char), !.col_gap = TRUE]]
        ELSE IF c.trace \in {8, 24} THEN
          [rest |-> c.trace - 8,
           w |-> IF c.col_gap THEN [w0 EXCEPT !.dead_end = TRUE]
                 ELSE find_gap_open(A, B, m, [w0 EXCEPT !.col_gap = FALSE],
                                    m.score[<<c.row, c.col>>], "col", c.col, 0)]
        ELSE
          [rest |-> c.trace - 16,
           w |-> find_gap_open(A, B, m, [w0 EXCEPT !.col_gap = TRUE],
                               m.score[<<c.row, c.col>>], "row", c.row, 0)]

NoAlignment == <<>>

RECURSIVE recover_alignments(_, _, _, _, _, _)
recover_alignments(A, B, m, c, live, in_process) ==
    IF ~live THEN
      IF in_process = <<>> THEN NoAlignment
      ELSE recover_alignments(A, B, m, Last(in_process), TRUE,
                              SubSeq(in_process, 1, Len(in_process) - 1))
    ELSE IF c.row = 0 /\ c.col = 0 THEN <<Reverse(c.a), Reverse(c.b)>>
    ELSE IF c.trace = 0 THEN
      IF c.col > 0 /\ c.col_gap THEN recover_alignments(A, B, m, c, FALSE, in_process)
      ELSE LET done == finish_backtrace(A, B, c.a, c.b, c.row, c.col)
           IN  <<Reverse(done[1]), Reverse(done[2])>>
    ELSE
      LET s == BacktraceStep(A, B, m, c, in_process)
          cache == [a |-> c.a, b |-> c.b, row |-> c.row, col |-> c.col,
                    col_gap |-> c.col_gap, trace |-> s.rest]
          stack == IF s.rest # 0 THEN Append(s.w.in_process, cache) ELSE s.w.in_process
          next == [a |-> s.w.a, b |-> s.w.b, row |-> s.w.row, col |-> s.w.col,
                   col_gap |-> s.w.col_gap, trace |-> m.trace[<<s.w.row, s.w.col>>]]
      IN  recover_alignments(A, B, m, next, ~s.w.dead_end, stack)

(* The list of alignments is empty when either sequence is empty;          *)
(* otherwise alignments[0] is (seqA, seqB).                                *)
globalxx(A, B) ==
    IF A = <<>> \/ B = <<>> THEN NoAlignment
    ELSE LET m == make_score_matrix(A, B, 1, 1, InitMatrices(A, B))
         IN  recover_alignments(A, B, m,
                                [a |-> <<>>, b |-> <<>>, row |-> Len(A), col |-> Len(B),
                                 col_gap |-> FALSE, trace |-> m.trace[<<Len(A), Len(B)>>]],
                                TRUE, <<>>)

(***************************************************************************)
(* librosa.sequence.dtw(X=unaccel_chroma, Y=accel_chroma,                  *)
(* metric="euclidean"): the accumulated cost matrix over the steps (1,1),  *)
(* (0,1), (1,0), tried in that order and kept only when strictly cheaper,  *)
(* then the path traced back from the last cell to (0,0).  wp[0] is the    *)
(* last cell and wp[-1] is (0,0).  An accumulated cost below zero stands   *)
(* for infinity.  Columns and indices are 0-based as in the code.          *)
(***************************************************************************)
(* Fault variant: diagonal steps only. *)
step_sizes_diagonal == << <<1, 1>>, <<1, 1>>, <<1, 1>> >>

step_sizes_sigma == << <<1, 1>>, <<0, 1>>, <<1, 0>> >>

(* Fault variant: every two columns are at distance zero. *)
no_distance(x, y) == 0

euclidean(x, y) == Abs(x - y)

Column(X, n) == X[n + 1]

AccuCell(X, Y, cur_n, cur_m, acc) ==
    LET cur_C == euclidean(Column(X, cur_n), Column(Y, cur_m))
        Prev(k) == <<cur_n - step_sizes_sigma[k][1], cur_m - step_sizes_sigma[k][2]>>
        Cost(k) == IF Prev(k)[1] < 0 \/ Prev(k)[2] < 0 THEN -1
                   ELSE IF acc.D[Prev(k)] < 0 THEN -1
                   ELSE acc.D[Prev(k)] + cur_C
        Better(c, best) == c >= 0 /\ (best < 0 \/ c < best)
        d0 == IF cur_n = 0 /\ cur_m = 0 THEN cur_C ELSE -1
        d1 == IF Better(Cost(1), d0) THEN Cost(1) ELSE d0
        s1 == IF Better(Cost(1), d0) THEN 1 ELSE acc.steps[<<cur_n, cur_m>>]
        d2 == IF Better(Cost(2), d1) THEN Cost(2) ELSE d1
        s2 == IF Better(Cost(2), d1) THEN 2 ELSE s1
        d3 == IF Better(Cost(3), d2) THEN Cost(3) ELSE d2
        s3 == IF Better(Cost(3), d2) THEN 3 ELSE s2
    IN  [D |-> [acc.D EXCEPT ![<<cur_n, cur_m>>] = d3],
         steps |-> [acc.steps EXCEPT ![<<cur_n, cur_m>>] = s3]]

RECURSIVE dtw_calc_accu_cost(_, _, _, _, _)
dtw_calc_accu_cost(X, Y, cur_n, cur_m, acc) ==
    IF cur_n >= Len(X) THEN acc
    ELSE IF cur_m >= Len(Y) THEN dtw_calc_accu_cost(X, Y, cur_n + 1, 0, acc)
    ELSE dtw_calc_accu_cost(X, Y, cur_n, cur_m + 1, AccuCell(X, Y, cur_n, cur_m, acc))

RECURSIVE dtw_backtracking(_, _, _)
dtw_backtracking(steps, cur_idx, path) ==
    IF cur_idx = <<0, 0>> THEN path
    ELSE
      LET cur_step == step_sizes_sigma[steps[cur_idx]]
          prev == <<cur_idx[1] - cur_step[1], cur_idx[2] - cur_step[2]>>
      IN  IF prev[1] < 0 \/ prev[2] < 0 THEN path
          ELSE dtw_backtracking(steps, prev, Append(path, prev))

(* Fault variant: the path returned first cell first. *)
dtw_forward(X, Y) ==
    LET grid == (0..(Len(X) - 1)) \X (0..(Len(Y) - 1))
        acc == dtw_calc_accu_cost(X, Y, 0, 0,
                                  [D |-> [c \in grid |-> -1], steps |-> [c \in grid |-> 1]])
        last == <<Len(X) - 1, Len(Y) - 1>>
    IN  [D |-> acc.D, wp |-> Reverse(dtw_backtracking(acc.steps, last, <<last>>))]

dtw(X, Y) ==
    LET grid == (0..(Len(X) - 1)) \X (0..(Len(Y) - 1))
        acc == dtw_calc_accu_cost(X, Y, 0, 0,
                                  [D |-> [c \in grid |-> -1], steps |-> [c \in grid |-> 1]])
        last == <<Len(X) - 1, Len(Y) - 1>>
    IN  [D |-> acc.D, wp |-> dtw_backtracking(acc.steps, last, <<last>>)]

(***************************************************************************)
(* File names.  A path is a sequence of tokens: single characters and, at  *)
(* the end, the suffix.  roll_id (line 44) is the part of the unaccelerated*)
(* file's base name before the first "-" and the first "_", then "_" and   *)
(* roll_tag.                                                               *)
(***************************************************************************)
Suffix(path) == Last(path)

RECURSIVE AfterLast(_, _)
AfterLast(s, sep) ==
    IF \A k \in 1..Len(s) : s[k] # sep THEN s
    ELSE AfterLast(Tail(s), sep)

RECURSIVE Before(_, _)
Before(s, sep) ==
    IF s = <<>> \/ Head(s) = sep THEN <<>>
    ELSE <<Head(s)>> \o Before(Tail(s), sep)

roll_id(unaccel_path, tag) ==
    Before(Before(AfterLast(unaccel_path, "/"), "-"), "_") \o <<"_", tag>>

alignment_fn(unaccel_path, tag) == roll_id(unaccel_path, tag) \o <<"_alignment.p">>

dtw_fn(unaccel_path, tag) == roll_id(unaccel_path, tag) \o <<"_dtw.p">>

(***************************************************************************)
(* pickle.dump / pickle.load of the two artifacts: a flat stream with a    *)
(* length prefix.                                                          *)
(***************************************************************************)
(* Fault variant: the two sequences stored in the other order. *)
DumpAlignment_swapped(seqA, seqB) == <<Len(seqB)>> \o seqB \o seqA

DumpAlignment(seqA, seqB) == <<Len(seqA)>> \o seqA \o seqB

LoadAlignment(blob) ==
    <<SubSeq(blob, 2, 1 + blob[1]), SubSeq(blob, 2 + blob[1], Len(blob))>>

DumpWarpPath(path) == [k \in 1..(2 * Len(path)) |-> path[(k + 1) \div 2][2 - (k % 2)]]

LoadWarpPath(blob) == [k \in 1..(Len(blob) \div 2) |-> <<blob[2 * k - 1], blob[2 * k]>>]

(***************************************************************************)
(* State                                                                   *)
(***************************************************************************)
VARIABLES
    run,                \* number of the current run of the script
    unaccel, accel,     \* the two inputs: [path, data]
    roll_tag,
    disk,               \* pickled artifacts by file name: [blob, writer]
    pc, outcome,
    unaccel_events, accel_events,
    unaccel_seq, accel_seq, wp,
    loaded,             \* 0: computed in this run; else the run that wrote the file
    i, unaccel_counter, accel_counter,
    matched_events_by_unaccel_ticks,
    arrival,            \* the (tick, unaccel_time, accel_time) entries in recording order
    misalignment_file,  \* the lines written to roll_id + "_midi_mismatches.txt"
    per_foot, tick_index,
    last_unaccel_time, last_unaccel_tick, last_accel_time,
    accel_t, accel_v,
    smoothed_v, regressions,
    kalman_filter,      \* the filter object: its state x and the calls made on it
    history             \* the finished runs

config == <<run, unaccel, accel, roll_tag>>
inputs == <<unaccel_events, accel_events>>
aligned == <<unaccel_seq, accel_seq, wp, loaded>>
walk == <<i, unaccel_counter, accel_counter, matched_events_by_unaccel_ticks, arrival,
          misalignment_file>>
velocity == <<per_foot, tick_index, last_unaccel_time, last_unaccel_tick, last_accel_time,
              accel_t, accel_v>>
report == <<smoothed_v, regressions, kalman_filter>>

vars == <<config, disk, pc, outcome, inputs, aligned, walk, velocity, report, history>>

(***************************************************************************)
(* Inputs                                                                  *)
(***************************************************************************)
NamedNotes == {60, 62}
PianoNotes == {60, 62, 64}
RepeatedNote == {60}
OddNotes == {5, HYPHEN, TILDE}
Tempos == {1}
ChromaLevels == {0, 10}
ChromaLevels3 == {0, 6, 10}
Tags == {"s", "t"}

Track(notes, deltas, tempo) ==
    <<SetTempo(0, tempo)>> \o [k \in 1..Len(notes) |-> NoteOn(deltas[k], notes[k])]

Tracks(alphabet, deltas, n) ==
    {Track(notes, d, tempo) :
        <<notes, d, tempo>> \in
           UNION {[1..k -> alphabet] \X [1..k -> deltas] \X Tempos : k \in 0..n}}

MidiFile(path, track) == [path |-> path, data |-> track]
AudioFile(path, chroma) == [path |-> path, data |-> chroma]

RefMidPath == <<"g", "/", "1", "_", "n", ".mid">>
TgtMidPath == <<"g", "/", "1", "-", "p", ".mid">>
RefMp3Path == <<"g", "/", "1", "_", "n", ".mp3">>
TgtMp3Path == <<"g", "/", "v", "_", "s", ".mp3">>

(* no filter object exists before line 351 *)
NoFilter == [x |-> <<>>, calls |-> <<>>]

RunStart ==
    /\ run = 1
    /\ roll_tag \in {"s"}
    /\ disk = <<>>
    /\ pc = "start"
    /\ outcome = "running"
    /\ unaccel_events = <<>> /\ accel_events = <<>>
    /\ unaccel_seq = <<>> /\ accel_seq = <<>> /\ wp = <<>>
    /\ loaded = 0
    /\ i = 1 /\ unaccel_counter = 0 /\ accel_counter = 0
    /\ matched_events_by_unaccel_ticks = <<>>
    /\ arrival = <<>>
    /\ misalignment_file = <<>>
    /\ per_foot = TRUE /\ tick_index = 1
    /\ last_unaccel_time = 0 /\ last_unaccel_tick = 0 /\ last_accel_time = 0
    /\ accel_t = <<>> /\ accel_v = <<>>
    /\ smoothed_v = <<>> /\ regressions = {}
    /\ kalman_filter = NoFilter
    /\ history = <<>>

(* two MIDI files: piano notes with chords (delta 0), piano notes one per   *)
(* foot, one note repeated every half foot or foot, or notes that have no  *)
(* name or meet the gap character                                          *)
InitDiscrete ==
    /\ \E family \in {<<NamedNotes, {0, FootTicks}>>, <<PianoNotes, {FootTicks}>>,
                       <<RepeatedNote, {FootTicks \div 2, FootTicks}>>,
                       <<OddNotes, {FootTicks}>>} :
         /\ unaccel \in {MidiFile(RefMidPath, t) : t \in Tracks(family[1], family[2], MaxRefNotes)}
         /\ accel \in {MidiFile(TgtMidPath, t) : t \in Tracks(family[1], {FootTicks}, MaxTgtNotes)}
    /\ RunStart

(* a MIDI reference and an audio target *)
InitMixed ==
    /\ unaccel \in {MidiFile(RefMidPath, t) : t \in Tracks({60, 62}, {1}, MaxTgtNotes)}
    /\ accel \in {AudioFile(TgtMp3Path, c) : c \in SeqsUpTo(ChromaLevels3, MaxTgtNotes + 1) \ {<<>>}}
    /\ RunStart

(* two audio files *)
InitContinuous ==
    /\ unaccel \in {AudioFile(RefMp3Path, c) : c \in SeqsUpTo(ChromaLevels, MaxRefBins) \ {<<>>}}
    /\ accel \in {AudioFile(TgtMp3Path, c) : c \in SeqsUpTo(ChromaLevels, MaxTgtBins) \ {<<>>}}
    /\ RunStart

(* an audio reference with a MIDI target is not supported *)
InitUnsupported ==
    /\ unaccel \in {AudioFile(RefMp3Path, c) : c \in SeqsUpTo(ChromaLevels, 1) \ {<<>>}}
    /\ accel \in {MidiFile(TgtMidPath, t) : t \in Tracks(NamedNotes, {FootTicks}, 1)}
    /\ RunStart

Init == InitDiscrete \/ InitMixed \/ InitContinuous \/ InitUnsupported

(***************************************************************************)
(* main(): reading the inputs and choosing the branch (lines 428, 623-631) *)
(***************************************************************************)
Returns(how) == pc' = "returned" /\ outcome' = how

Raises(exception) == pc' = "raised" /\ outcome' = exception

(* Fault variant: an audio reference with a symbolic target is sent to the  *)
(* discrete aligner instead of being refused.                              *)
LoadInputs_no_refusal ==
    /\ pc = "start"
    /\ IF Suffix(unaccel.path) = ".mp3" /\ Suffix(accel.path) = ".mp3" THEN
         /\ pc' = "dtw"
         /\ UNCHANGED <<outcome, inputs>>
       ELSE IF Suffix(accel.path) = ".mid" /\ MidiTimingsRaises(accel.data) THEN
         /\ Raises("UnboundLocalError")
         /\ UNCHANGED inputs
       ELSE IF Suffix(unaccel.path) = ".mid" /\ MidiTimingsRaises(unaccel.data) THEN
         /\ Raises("UnboundLocalError")
         /\ UNCHANGED inputs
       ELSE
         /\ unaccel_events' = IF Suffix(unaccel.path) = ".mid"
                              THEN get_midi_timings(unaccel.data, Suffix(accel.path) = ".mp3")
                              ELSE get_chroma_timings(unaccel.data)
         /\ accel_events' = IF Suffix(accel.path) = ".mid"
                            THEN get_midi_timings(accel.data, FALSE)
                            ELSE get_chroma_timings(accel.data)
         /\ pc' = "align"
         /\ UNCHANGED outcome
    /\ UNCHANGED <<config, disk, aligned, walk, velocity, report, history>>

LoadInputs ==
    /\ pc = "start"
    /\ IF Suffix(unaccel.path) = ".mp3" /\ Suffix(accel.path) = ".mp3" THEN
         /\ pc' = "dtw"
         /\ UNCHANGED <<outcome, inputs>>
       ELSE IF Suffix(unaccel.path) = ".mid" /\ Suffix(accel.path) = ".mp3" THEN
         IF MidiTimingsRaises(unaccel.data) THEN
           /\ Raises("UnboundLocalError")
           /\ UNCHANGED inputs
         ELSE
           /\ unaccel_events' = get_midi_timings(unaccel.data, TRUE)
           /\ accel_events' = get_chroma_timings(accel.data)
           /\ pc' = "align"
           /\ UNCHANGED outcome
       ELSE IF Suffix(unaccel.path) = ".mid" /\ Suffix(accel.path) = ".mid" THEN
         IF MidiTimingsRaises(unaccel.data) \/ MidiTimingsRaises(accel.data) THEN
           /\ Raises("UnboundLocalError")
           /\ UNCHANGED inputs
         ELSE
           /\ unaccel_events' = get_midi_timings(unaccel.data, FALSE)
           /\ accel_events' = get_midi_timings(accel.data, FALSE)
           /\ pc' = "align"
           /\ UNCHANGED outcome
       ELSE
         /\ Returns("unsupported input types")
         /\ UNCHANGED inputs
    /\ UNCHANGED <<config, disk, aligned, walk, velocity, report, history>>

(***************************************************************************)
(* Lines 636-685: encode, gap check, load or compute the alignment.        *)
(***************************************************************************)
Written(blob) == [blob |-> blob, writer |-> run]

StoreAlignment(fn, seqA, seqB) ==
    [f \in DOMAIN disk \cup {fn} |->
        IF f = fn THEN Written(DumpAlignment(seqA, seqB)) ELSE disk[f]]

Align ==
    /\ pc = "align"
    /\ LET unaccel_chars == Chars(unaccel_events)
           accel_chars == Chars(accel_events)
           fn == alignment_fn(unaccel.path, roll_tag)
       IN  IF gap_char \in Range(unaccel_chars) \/ gap_char \in Range(accel_chars) THEN
             /\ Returns("gap char in use")
             /\ UNCHANGED <<disk, aligned>>
           ELSE IF fn \in DOMAIN disk THEN
             /\ unaccel_seq' = LoadAlignment(disk[fn].blob)[1]
             /\ accel_seq' = LoadAlignment(disk[fn].blob)[2]
             /\ loaded' = disk[fn].writer
             /\ pc' = "walk"
             /\ UNCHANGED <<disk, outcome, wp>>
           ELSE
             LET alignments == globalxx(unaccel_chars, accel_chars)
             IN  IF alignments = NoAlignment THEN
                   /\ Raises("IndexError")
                   /\ UNCHANGED <<disk, aligned>>
                 ELSE
                   /\ unaccel_seq' = alignments[1]
                   /\ accel_seq' = alignments[2]
                   /\ disk' = StoreAlignment(fn, alignments[1], alignments[2])
                   /\ pc' = "walk"
                   /\ UNCHANGED <<outcome, wp, loaded>>
    /\ UNCHANGED <<config, inputs, walk, velocity, report, history>>

(***************************************************************************)
(* Lines 687-754: one pass of the loop over the aligned sequences.         *)
(***************************************************************************)
(* Fault variant: a later pair at a tick replaces the earlier ones. *)
Record_replace(matches, tick, pair) ==
    [t \in DOMAIN matches \cup {tick} |-> IF t = tick THEN <<pair>> ELSE matches[t]]

(* Fault variant: a later pair at a tick is put before the earlier ones. *)
Record_prepend(matches, tick, pair) ==
    [t \in DOMAIN matches \cup {tick} |->
        IF t \in DOMAIN matches THEN (IF t = tick THEN <<pair>> \o matches[t] ELSE matches[t])
        ELSE <<pair>>]

Record(matches, tick, pair) ==
    [t \in DOMAIN matches \cup {tick} |->
        IF t \in DOMAIN matches THEN (IF t = tick THEN Append(matches[t], pair) ELSE matches[t])
        ELSE <<pair>>]

(* the call of compute_acceleration_by_matches and its lines 273-286 *)
CallComputeAcceleration(by_foot) ==
    /\ pc' = "velocity"
    /\ per_foot' = by_foot
    /\ tick_index' = 1
    /\ last_unaccel_time' = 0 /\ last_unaccel_tick' = 0 /\ last_accel_time' = 0
    /\ accel_t' = <<>> /\ accel_v' = <<>>

AfterWalk == CallComputeAcceleration(Suffix(accel.path) # ".mp3")

(* Fault variant: both cursors advance at every position. *)
Advance_both(unaccel_item, accel_item) ==
    /\ unaccel_counter' = unaccel_counter + 1
    /\ accel_counter' = accel_counter + 1
    /\ i' = i + 1
    /\ UNCHANGED <<pc, outcome, velocity>>

Advance(unaccel_item, accel_item) ==
    /\ unaccel_counter' = IF unaccel_item # gap_char THEN unaccel_counter + 1 ELSE unaccel_counter
    /\ accel_counter' = IF accel_item # gap_char THEN accel_counter + 1 ELSE accel_counter
    /\ i' = i + 1
    /\ UNCHANGED <<pc, outcome, velocity>>

WalkStep ==
    /\ pc = "walk"
    /\ i <= Len(unaccel_seq)
    /\ IF i > Len(accel_seq) THEN
         /\ Raises("IndexError")
         /\ UNCHANGED <<walk, velocity>>
       ELSE IF unaccel_counter >= Len(unaccel_events) \/ accel_counter >= Len(accel_events) THEN
         /\ AfterWalk
         /\ UNCHANGED <<outcome, walk>>
       ELSE
         LET unaccel_item == unaccel_seq[i]
             accel_item == accel_seq[i]
             unaccel_event == unaccel_events[unaccel_counter + 1]
             accel_event == accel_events[accel_counter + 1]
             unaccel_midi_number == CharToNote(unaccel_item)
             accel_midi_number == CharToNote(accel_item)
         IN  IF unaccel_item = gap_char THEN
               IF ~HasNoteName(accel_midi_number) THEN
                 /\ Raises("KeyError")
                 /\ UNCHANGED <<walk, velocity>>
               ELSE
                 /\ misalignment_file' =
                      Append(misalignment_file,
                             <<"ACCEL NOTE", EvTick(accel_event), accel_midi_number>>)
                 /\ Advance(unaccel_item, accel_item)
                 /\ UNCHANGED <<matched_events_by_unaccel_ticks, arrival>>
             ELSE IF accel_item = gap_char THEN
               IF ~HasNoteName(unaccel_midi_number) THEN
                 /\ Raises("KeyError")
                 /\ UNCHANGED <<walk, velocity>>
               ELSE
                 /\ misalignment_file' =
                      Append(misalignment_file,
                             <<"UNACCEL NOTE", EvTick(unaccel_event), unaccel_midi_number>>)
                 /\ Advance(unaccel_item, accel_item)
                 /\ UNCHANGED <<matched_events_by_unaccel_ticks, arrival>>
             ELSE IF \/ unaccel_midi_number # EvNote(unaccel_event)
                     \/ accel_midi_number # EvNote(accel_event)
                     \/ accel_midi_number # unaccel_midi_number THEN
               /\ Returns("MIDI numbers don't align")
               /\ UNCHANGED <<walk, velocity>>
             ELSE IF ~HasNoteName(unaccel_midi_number) \/ ~HasNoteName(accel_midi_number) THEN
               /\ Raises("KeyError")
               /\ UNCHANGED <<walk, velocity>>
             ELSE
               /\ misalignment_file' =
                    Append(misalignment_file,
                           <<"MATCH", EvTick(unaccel_event), unaccel_midi_number>>)
               /\ matched_events_by_unaccel_ticks' =
                    Record(matched_events_by_unaccel_ticks, EvTick(unaccel_event),
                           <<EvTime(unaccel_event), EvTime(accel_event)>>)
               /\ arrival' = Append(arrival, <<EvTick(unaccel_event), EvTime(unaccel_event),
                                               EvTime(accel_event)>>)
               /\ Advance(unaccel_item, accel_item)
    /\ UNCHANGED <<config, disk, inputs, aligned, report, history>>

(* the loop has run through the aligned sequence: lines 756-765 *)
WalkEnd ==
    /\ pc = "walk"
    /\ i > Len(unaccel_seq)
    /\ AfterWalk
    /\ UNCHANGED <<config, disk, outcome, inputs, aligned, walk, report, history>>

(***************************************************************************)
(* Lines 472-496: load or compute the warping path.  The pickle also holds *)
(* D (only plotted) and the durations and sample counts, whose quotient,   *)
(* the bin duration, is hop_length / sample_rate for every file.           *)
(***************************************************************************)
StoreWarpPath(fn, path) ==
    [f \in DOMAIN disk \cup {fn} |-> IF f = fn THEN Written(DumpWarpPath(path)) ELSE disk[f]]

Dtw ==
    /\ pc = "dtw"
    /\ LET fn == dtw_fn(unaccel.path, roll_tag)
       IN  IF fn \in DOMAIN disk THEN
             /\ wp' = LoadWarpPath(disk[fn].blob)
             /\ loaded' = disk[fn].writer
             /\ UNCHANGED disk
           ELSE
             /\ wp' = dtw(unaccel.data, accel.data).wp
             /\ disk' = StoreWarpPath(fn, wp')
             /\ UNCHANGED loaded
    /\ pc' = "warp"
    /\ UNCHANGED <<config, outcome, inputs, unaccel_seq, accel_seq, walk, velocity, report, history>>

(***************************************************************************)
(* Lines 568-619: the loop over the warping path, x from wp.shape[0] - 1   *)
(* down to 1.  Times are counted in bins; the tick of a reference bin is   *)
(* int(stride * bin_duration * unaccel_tps).                               *)
(***************************************************************************)
StrideTick(unaccel_stride) == (unaccel_stride * hop_length * unaccel_tps) \div sample_rate

(* Fault variant: an entry is emitted when either index differs. *)
RECURSIVE WarpLoop_either(_, _, _, _, _)
WarpLoop_either(path, x, last_unaccel_stride, last_accel_stride, acc) ==
    IF x < 1 THEN acc
    ELSE
      LET unaccel_stride == path[x + 1][1]
          accel_stride == path[x + 1][2]
          unaccel_tick == StrideTick(unaccel_stride)
          emit == unaccel_stride # last_unaccel_stride \/ accel_stride # last_accel_stride
      IN  WarpLoop_either(path, x - 1, unaccel_stride, accel_stride,
                   IF emit
                   THEN [matches |-> Record(acc.matches, unaccel_tick, <<unaccel_stride, accel_stride>>),
                         arrival |-> Append(acc.arrival, <<unaccel_tick, unaccel_stride, accel_stride>>)]
                   ELSE acc)

RECURSIVE WarpLoop(_, _, _, _, _)
WarpLoop(path, x, last_unaccel_stride, last_accel_stride, acc) ==
    IF x < 1 THEN acc
    ELSE
      LET unaccel_stride == path[x + 1][1]
          accel_stride == path[x + 1][2]
          unaccel_tick == StrideTick(unaccel_stride)
          emit == unaccel_stride # last_unaccel_stride /\ accel_stride # last_accel_stride
      IN  WarpLoop(path, x - 1, unaccel_stride, accel_stride,
                   IF emit
                   THEN [matches |-> Record(acc.matches, unaccel_tick, <<unaccel_stride, accel_stride>>),
                         arrival |-> Append(acc.arrival, <<unaccel_tick, unaccel_stride, accel_stride>>)]
                   ELSE acc)

WarpWalk ==
    /\ pc = "warp"
    /\ LET built == WarpLoop(wp, Len(wp) - 1, 0, 0, [matches |-> <<>>, arrival |-> <<>>])
       IN  /\ matched_events_by_unaccel_ticks' = built.matches
           /\ arrival' = built.arrival
    /\ CallComputeAcceleration(TRUE)
    /\ UNCHANGED <<config, disk, outcome, inputs, aligned, i, unaccel_counter, accel_counter,
                   misalignment_file, report, history>>

(***************************************************************************)
(* compute_acceleration_by_matches, lines 288-329: one pass of the loop    *)
(* over the sorted ticks.  A velocity is the fraction <<num, den>>; a      *)
(* division by zero raises ZeroDivisionError.                              *)
(***************************************************************************)
RECURSIVE SortedSeq(_)
SortedSeq(S) ==
    IF S = {} THEN <<>>
    ELSE LET least == CHOOSE t \in S : \A u \in S : t <= u
         IN  <<least>> \o SortedSeq(S \ {least})

SortedTicks == SortedSeq(DOMAIN matched_events_by_unaccel_ticks)

sample_interval == IF per_foot THEN FootTicks ELSE FineInterval

(* Fault variant: a tick is compared with the tick before it, retained or  *)
(* not.                                                                    *)
VelocityStep_last_visited ==
    /\ pc = "velocity"
    /\ tick_index <= Len(SortedTicks)
    /\ tick_index' = tick_index + 1
    /\ LET unaccel_tick == SortedTicks[tick_index]
           matched_event == matched_events_by_unaccel_ticks[unaccel_tick]
           unaccel_time == matched_event[1][1]
           accel_time == matched_event[1][2]
       IN  IF unaccel_tick - last_unaccel_tick < sample_interval THEN
             /\ last_unaccel_tick' = unaccel_tick
             /\ UNCHANGED <<last_unaccel_time, last_accel_time, accel_t, accel_v>>
           ELSE
             /\ IF accel_time > last_accel_time /\ unaccel_time > last_unaccel_time THEN
                  /\ accel_t' = Append(accel_t, <<accel_time, 60>>)
                  /\ accel_v' = Append(accel_v, <<(unaccel_tick - last_unaccel_tick) * 60,
                                                  FootTicks * (accel_time - last_accel_time)>>)
                ELSE UNCHANGED <<accel_t, accel_v>>
             /\ last_unaccel_time' = unaccel_time
             /\ last_unaccel_tick' = unaccel_tick
             /\ last_accel_time' = accel_time
    /\ UNCHANGED <<config, disk, pc, outcome, inputs, aligned, walk, per_foot, report, history>>

(* Fault variant: only a tick that yields a sample becomes the baseline. *)
VelocityStep_emitted_baseline ==
    /\ pc = "velocity"
    /\ tick_index <= Len(SortedTicks)
    /\ tick_index' = tick_index + 1
    /\ LET unaccel_tick == SortedTicks[tick_index]
           matched_event == matched_events_by_unaccel_ticks[unaccel_tick]
           unaccel_time == matched_event[1][1]
           accel_time == matched_event[1][2]
       IN  IF unaccel_tick - last_unaccel_tick < sample_interval THEN
             UNCHANGED <<last_unaccel_time, last_unaccel_tick, last_accel_time, accel_t, accel_v>>
           ELSE IF accel_time > last_accel_time /\ unaccel_time > last_unaccel_time THEN
             /\ accel_t' = Append(accel_t, <<accel_time, 60>>)
             /\ accel_v' = Append(accel_v, <<(unaccel_tick - last_unaccel_tick) * 60,
                                             FootTicks * (accel_time - last_accel_time)>>)
             /\ last_unaccel_time' = unaccel_time
             /\ last_unaccel_tick' = unaccel_tick
             /\ last_accel_time' = accel_time
           ELSE
             UNCHANGED <<last_unaccel_time, last_unaccel_tick, last_accel_time, accel_t, accel_v>>
    /\ UNCHANGED <<config, disk, pc, outcome, inputs, aligned, walk, per_foot, report, history>>

(* the divisors of lines 303-310 that are not literals *)
Divisors(unaccel_time, accel_time) ==
    {unaccel_time - last_unaccel_time, accel_time - last_accel_time, unaccel_time, accel_time}

(* Fault variant: a sample is emitted when neither time has gone back. *)
VelocityStep_not_strict ==
    /\ pc = "velocity"
    /\ tick_index <= Len(SortedTicks)
    /\ LET unaccel_tick == SortedTicks[tick_index]
           matched_event == matched_events_by_unaccel_ticks[unaccel_tick]
           unaccel_time == matched_event[1][1]
           accel_time == matched_event[1][2]
           emits == accel_time >= last_accel_time /\ unaccel_time >= last_unaccel_time
       IN  IF unaccel_tick - last_unaccel_tick < sample_interval THEN
             /\ tick_index' = tick_index + 1
             /\ UNCHANGED <<pc, outcome, last_unaccel_time, last_unaccel_tick, last_accel_time,
                            accel_t, accel_v>>
           ELSE IF emits /\ 0 \in Divisors(unaccel_time, accel_time) THEN
             /\ Raises("ZeroDivisionError")
             /\ UNCHANGED <<tick_index, last_unaccel_time, last_unaccel_tick, last_accel_time,
                            accel_t, accel_v>>
           ELSE
             /\ tick_index' = tick_index + 1
             /\ IF emits THEN
                  /\ accel_t' = Append(accel_t, <<accel_time, 60>>)
                  /\ accel_v' = Append(accel_v, <<(unaccel_tick - last_unaccel_tick) * 60,
                                                  FootTicks * (accel_time - last_accel_time)>>)
                ELSE UNCHANGED <<accel_t, accel_v>>
             /\ last_unaccel_time' = unaccel_time
             /\ last_unaccel_tick' = unaccel_tick
             /\ last_accel_time' = accel_time
             /\ UNCHANGED <<pc, outcome>>
    /\ UNCHANGED <<config, disk, inputs, aligned, walk, per_foot, report, history>>

VelocityStep ==
    /\ pc = "velocity"
    /\ tick_index <= Len(SortedTicks)
    /\ LET unaccel_tick == SortedTicks[tick_index]
           matched_event == matched_events_by_unaccel_ticks[unaccel_tick]
           unaccel_time == matched_event[1][1]
           accel_time == matched_event[1][2]
           emits == accel_time > last_accel_time /\ unaccel_time > last_unaccel_time
       IN  IF unaccel_tick - last_unaccel_tick < sample_interval THEN
             /\ tick_index' = tick_index + 1
             /\ UNCHANGED <<pc, outcome, last_unaccel_time, last_unaccel_tick, last_accel_time,
                            accel_t, accel_v>>
           ELSE IF emits /\ 0 \in Divisors(unaccel_time, accel_time) THEN
             /\ Raises("ZeroDivisionError")
             /\ UNCHANGED <<tick_index, last_unaccel_time, last_unaccel_tick, last_accel_time,
                            accel_t, accel_v>>
           ELSE
             /\ tick_index' = tick_index + 1
             /\ IF emits THEN
                  /\ accel_t' = Append(accel_t, <<accel_time, 60>>)
                  /\ accel_v' = Append(accel_v, <<(unaccel_tick - last_unaccel_tick) * 60,
                                                  FootTicks * (accel_time - last_accel_time)>>)
                ELSE UNCHANGED <<accel_t, accel_v>>
             /\ last_unaccel_time' = unaccel_time
             /\ last_unaccel_tick' = unaccel_tick
             /\ last_accel_time' = accel_time
             /\ UNCHANGED <<pc, outcome>>
    /\ UNCHANGED <<config, disk, inputs, aligned, walk, per_foot, report, history>>

(***************************************************************************)
(* visualize_observed_velocities, lines 335-417.  statistics.median raises *)
(* on no data and statistics.stdev on fewer than two values; line 347      *)
(* divides by accel_t[-1] - accel_t[1], which is zero for two samples (an  *)
(* exception for Python floats, nan for the numpy floats of the audio      *)
(* branch).                                                                *)
(***************************************************************************)
NumpyFloats == Suffix(unaccel.path) = ".mp3"

(* The filter of lines 351-378 (filterpy's KalmanFilter, dim_x = 2,        *)
(* dim_z = 1).  A number held by the filter is kept by its provenance: the *)
(* constant 0, the k-th velocity sample, or row `row' of the state after   *)
(* the predict or the update call of the k-th sample.                      *)
ZeroValue == [from |-> "zero", k |-> 0, row |-> 0]
Sample(k) == [from |-> "sample", k |-> k, row |-> 0]
Predicted(k, row) == [from |-> "predict", k |-> k, row |-> row]
Updated(k, row) == [from |-> "update", k |-> k, row |-> row]

(* kalman_filter.H = [[1.0, 0.0]]: the measurement is row 0 of the state *)
H == <<1, 0>>

(* kalman_filter.x = np.array([[0], [accel_v[0]]]), line 356 *)
initial_state == <<ZeroValue, Sample(1)>>

KalmanFilter ==
    [x |-> initial_state,
     calls |-> <<[call |-> "x =", z |-> 1, x |-> initial_state]>>]

(* x = F x with F = [[1, 1], [0, 1]]: row 0 is a new number, row 1 stays *)
predict(filter, k) ==
    LET x == <<Predicted(k, 0), filter.x[2]>>
    IN  [x |-> x, calls |-> Append(filter.calls, [call |-> "predict", z |-> 0, x |-> x])]

(* x = x + K (z - H x): both rows are new numbers; z is the k-th sample *)
update(filter, k) ==
    LET x == <<Updated(k, 0), Updated(k, 1)>>
    IN  [x |-> x, calls |-> Append(filter.calls, [call |-> "update", z |-> k, x |-> x])]

(* Fault variant of the loop: the measurement is applied before the        *)
(* prediction.                                                             *)
RECURSIVE KalmanLoop_update_first(_, _, _, _)
KalmanLoop_update_first(v, k, filter, smoothed) ==
    IF k > Len(v) THEN [filter |-> filter, smoothed_v |-> smoothed]
    ELSE LET after == predict(update(filter, k), k)
         IN  KalmanLoop_update_first(v, k + 1, after, Append(smoothed, after.x[1]))

(* lines 370-378: for i in range(1, len(accel_v)): predict(); update(); *)
(* x, P = kalman_filter.x; smoothed_v.append(x[0])                      *)
RECURSIVE KalmanLoop(_, _, _, _)
KalmanLoop(v, k, filter, smoothed) ==
    IF k > Len(v) THEN [filter |-> filter, smoothed_v |-> smoothed]
    ELSE LET after == update(predict(filter, k), k)
         IN  KalmanLoop(v, k + 1, after, Append(smoothed, after.x[1]))

(* smoothed_v = [accel_v[0]] before the loop, line 368 *)
KalmanRun(v) == KalmanLoop(v, 2, KalmanFilter, <<Sample(1)>>)

KalmanSmoothed(v) == KalmanRun(v).smoothed_v

(* Fault variant: the statistics accept any number of samples. *)
Visualize_unguarded ==
    /\ pc = "velocity"
    /\ tick_index > Len(SortedTicks)
    /\ smoothed_v' = KalmanSmoothed(accel_v)
    /\ kalman_filter' = KalmanRun(accel_v).filter
    /\ regressions' = {"raw", "smoothed"}
    /\ Returns("completed")
    /\ UNCHANGED <<config, disk, inputs, aligned, walk, velocity, history>>

Visualize ==
    /\ pc = "velocity"
    /\ tick_index > Len(SortedTicks)
    /\ IF Len(accel_v) < 2 THEN
         /\ Raises("StatisticsError")
         /\ UNCHANGED report
       ELSE IF accel_t[Len(accel_t)] = accel_t[2] /\ ~NumpyFloats THEN
         /\ Raises("ZeroDivisionError")
         /\ UNCHANGED report
       ELSE
         /\ smoothed_v' = KalmanSmoothed(accel_v)
         /\ kalman_filter' = KalmanRun(accel_v).filter
         /\ regressions' = {"raw", "smoothed"}
         /\ Returns("completed")
    /\ UNCHANGED <<config, disk, inputs, aligned, walk, velocity, history>>

(***************************************************************************)
(* The script is run again, possibly with other inputs or another tag; the *)
(* pickles stay on disk.                                                   *)
(***************************************************************************)
CatalogMid1 == MidiFile(<<"g", "/", "1", "_", "n", ".mid">>,
                        Track(<<60, 62, 64>>, <<FootTicks, FootTicks, FootTicks>>, 1))
CatalogMid2 == MidiFile(<<"g", "/", "1", "-", "p", ".mid">>,
                        Track(<<60, 64>>, <<FootTicks, FootTicks>>, 1))
CatalogMid3 == MidiFile(<<"g", "/", "1", "-", "q", ".mid">>,
                        Track(<<62, 64>>, <<FootTicks, FootTicks>>, 1))
CatalogMp31 == AudioFile(<<"g", "/", "1", "_", "n", ".mp3">>, <<0, 10, 0>>)
CatalogMp32 == AudioFile(<<"g", "/", "1", "-", "s", ".mp3">>, <<0, 10, 10, 0>>)

Catalog == {CatalogMid1, CatalogMid2, CatalogMid3, CatalogMp31, CatalogMp32}

Finished == pc \in {"returned", "raised"}

RunRecord ==
    [run |-> run, unaccel |-> unaccel.path, accel |-> accel.path, roll_tag |-> roll_tag,
     loaded |-> loaded, outcome |-> outcome, unaccel_seq |-> unaccel_seq,
     accel_seq |-> accel_seq, wp |-> wp, arrival |-> arrival,
     matched |-> matched_events_by_unaccel_ticks]

NewRun ==
    /\ Finished
    /\ run < MaxRuns
    /\ history' = Append(history, RunRecord)
    /\ run' = run + 1
    /\ unaccel' \in Catalog
    /\ accel' \in Catalog
    /\ roll_tag' \in Tags
    /\ pc' = "start"
    /\ outcome' = "running"
    /\ unaccel_events' = <<>> /\ accel_events' = <<>>
    /\ unaccel_seq' = <<>> /\ accel_seq' = <<>> /\ wp' = <<>>
    /\ loaded' = 0
    /\ i' = 1 /\ unaccel_counter' = 0 /\ accel_counter' = 0
    /\ matched_events_by_unaccel_ticks' = <<>>
    /\ arrival' = <<>>
    /\ misalignment_file' = <<>>
    /\ per_foot' = TRUE /\ tick_index' = 1
    /\ last_unaccel_time' = 0 /\ last_unaccel_tick' = 0 /\ last_accel_time' = 0
    /\ accel_t' = <<>> /\ accel_v' = <<>>
    /\ smoothed_v' = <<>> /\ regressions' = {}
    /\ kalman_filter' = NoFilter
    /\ UNCHANGED disk

InitCatalog ==
    /\ unaccel \in Catalog
    /\ accel \in Catalog
    /\ RunStart

Main == LoadInputs \/ Align \/ WalkStep \/ WalkEnd \/ Dtw \/ WarpWalk \/ VelocityStep \/ Visualize

Next == Main

Spec == Init /\ [][Next]_vars

NextRuns == Main \/ NewRun

SpecRuns == InitCatalog /\ [][NextRuns]_vars

(***************************************************************************)
(* compute_acceleration_by_matches as a function of its arguments: the     *)
(* correspondence is drawn from the ticks below with any times up to       *)
(* MaxTime under each, increasing or not, for the two callers that pass    *)
(* Python floats (two MIDI files: per_foot = True; a MIDI file and an      *)
(* audio file: per_foot = False).                                          *)
(***************************************************************************)
EstimatorTicks == {FootTicks \div 2, FootTicks, 2 * FootTicks}

Correspondences ==
    UNION {[S -> {<<<<unaccel_time, accel_time>>>> :
                     unaccel_time \in 0..MaxTime, accel_time \in 0..MaxTime}] :
           S \in SUBSET EstimatorTicks}

InitEstimator ==
    /\ run = 1
    /\ roll_tag = "s"
    /\ disk = <<>>
    /\ unaccel = MidiFile(RefMidPath, <<>>)
    /\ accel \in {MidiFile(TgtMidPath, <<>>), AudioFile(TgtMp3Path, <<>>)}
    /\ unaccel_events = <<>> /\ accel_events = <<>>
    /\ unaccel_seq = <<>> /\ accel_seq = <<>> /\ wp = <<>>
    /\ loaded = 0
    /\ i = 1 /\ unaccel_counter = 0 /\ accel_counter = 0
    /\ matched_events_by_unaccel_ticks \in Correspondences
    /\ arrival = [k \in 1..Len(SortedTicks) |->
                    <<SortedTicks[k]>> \o matched_events_by_unaccel_ticks[SortedTicks[k]][1]]
    /\ misalignment_file = <<>>
    /\ pc = "velocity" /\ outcome = "running"
    /\ per_foot = (Suffix(accel.path) # ".mp3")
    /\ tick_index = 1
    /\ last_unaccel_time = 0 /\ last_unaccel_tick = 0 /\ last_accel_time = 0
    /\ accel_t = <<>> /\ accel_v = <<>>
    /\ smoothed_v = <<>> /\ regressions = {}
    /\ kalman_filter = NoFilter
    /\ history = <<>>

NextEstimator == VelocityStep \/ Visualize

SpecEstimator == InitEstimator /\ [][NextEstimator]_vars

(***************************************************************************)
(* The two readers of MIDI timings as functions of the merged track: the   *)
(* reference file holds any messages up to MaxMessages, tempo changes      *)
(* before, between and after the notes; main() of align-and-compare.py     *)
(* reads it with get_midi_timings and main() of compare_midi_timings.py    *)
(* (lines 128-129) with get_note_timings.                                  *)
(***************************************************************************)
TempoChoices == {1, 3}

Messages ==
    {NoteOn(delta, note) : <<delta, note>> \in {0, 1} \X NamedNotes}
      \cup {SetTempo(delta, tempo) : <<delta, tempo>> \in {0, 1} \X TempoChoices}

InitTimings ==
    /\ unaccel \in {MidiFile(RefMidPath, t) : t \in SeqsUpTo(Messages, MaxMessages)}
    /\ accel = MidiFile(TgtMidPath, Track(<<60>>, <<FootTicks>>, 1))
    /\ RunStart

CompareLoad ==
    /\ pc = "start"
    /\ unaccel_events' = get_note_timings(unaccel.data)
    /\ accel_events' = get_note_timings(accel.data)
    /\ pc' = "compare"
    /\ UNCHANGED <<config, disk, outcome, aligned, walk, velocity, report, history>>

NextTimings == LoadInputs \/ CompareLoad

SpecTimings == InitTimings /\ [][NextTimings]_vars

(***************************************************************************)
(* The encoding of lines 641-642 and the decoding of lines 713-714 over    *)
(* the whole alphabet: two MIDI files of one note each, of any note        *)
(* numbers, are read, encoded and aligned.                                 *)
(***************************************************************************)
Alphabet == 0..127

InitEncoding ==
    /\ unaccel \in {MidiFile(RefMidPath, Track(<<c>>, <<FootTicks>>, 1)) : c \in Alphabet}
    /\ accel \in {MidiFile(TgtMidPath, Track(<<d>>, <<FootTicks>>, 1)) : d \in Alphabet}
    /\ RunStart

NextEncoding == LoadInputs \/ Align

SpecEncoding == InitEncoding /\ [][NextEncoding]_vars

(***************************************************************************)
(* Properties                                                              *)
(***************************************************************************)
NoDoubleGap(seqA, seqB) ==
    \A k \in 1..Len(seqA) : ~(seqA[k] = gap_char /\ seqB[k] = gap_char)

(* C1: every alignment the discrete aligner returns is a pair of sequences *)
(* of equal length that never hold the gap marker at the same position.    *)
C1_AlignmentShape ==
    loaded = 0 =>
       /\ Len(unaccel_seq) = Len(accel_seq)
       /\ NoDoubleGap(unaccel_seq, accel_seq)
       /\ (pc = "walk" => unaccel_seq # <<>>)

C1_Witness ==
    /\ pc = "walk" /\ loaded = 0
    /\ gap_char \in Range(unaccel_seq)
    /\ gap_char \in Range(accel_seq)

WalkOrder(path) == Reverse(path)

NonDecreasingPath(p) ==
    \A k \in 1..(Len(p) - 1) : p[k][1] <= p[k + 1][1] /\ p[k][2] <= p[k + 1][2]

(* C3: read from its last array entry to its first (the direction in which *)
(* the correspondence loop indexes it), a computed warping path starts at  *)
(* (0,0), ends at (m-1,n-1) and never decreases in either coordinate.      *)
C3_WarpPathMonotone ==
    (pc = "warp" /\ loaded = 0) =>
       LET p == WalkOrder(wp)
       IN  /\ p # <<>>
           /\ p[1] = <<0, 0>>
           /\ Last(p) = <<Len(unaccel.data) - 1, Len(accel.data) - 1>>
           /\ NonDecreasingPath(p)

C3_Witness ==
    /\ pc = "warp" /\ loaded = 0
    /\ \E k \in 1..(Len(wp) - 1) : wp[k][1] = wp[k + 1][1]
    /\ \E k \in 1..(Len(wp) - 1) : wp[k][2] = wp[k + 1][2]
    /\ \E k \in 1..(Len(wp) - 1) : wp[k][1] # wp[k + 1][1] /\ wp[k][2] # wp[k + 1][2]

(* C4: in recording order, the reference ticks of the correspondence       *)
(* entries never decrease, in the discrete and in the audio branch.        *)
C4_TicksNonDecreasing ==
    \A k \in 1..(Len(arrival) - 1) : arrival[k][1] <= arrival[k + 1][1]

C4_Witness ==
    /\ pc = "velocity"
    /\ Len(arrival) = 2
    /\ arrival[1][1] = arrival[2][1]
    /\ Suffix(unaccel.path) = ".mid"
    /\ unaccel.data[2].note > unaccel.data[3].note

(* C5: a run that loads the alignment (or warping path) stored by an       *)
(* earlier run on the same reference and target inputs ends with the same  *)
(* correspondence, recorded in the same order, as the run that computed    *)
(* and stored it.                                                          *)
C5_CachedEqualsFresh ==
    (/\ Finished /\ loaded # 0
     /\ history[loaded].loaded = 0
     /\ history[loaded].unaccel = unaccel.path
     /\ history[loaded].accel = accel.path)
    => /\ matched_events_by_unaccel_ticks = history[loaded].matched
       /\ arrival = history[loaded].arrival

C5_Witness ==
    /\ Finished /\ loaded # 0
    /\ history[loaded].loaded = 0
    /\ history[loaded].unaccel = unaccel.path
    /\ history[loaded].accel = accel.path
    /\ Suffix(accel.path) = ".mid"
    /\ gap_char \in Range(accel_seq)
    /\ Len(arrival) = 2

(* C6: whenever a run takes the alignment or the warping path from the     *)
(* cache, what it loads is what a fresh computation on that run's own two  *)
(* inputs produces.                                                        *)
C6_CacheHitIsFresh ==
    /\ (pc = "walk" /\ loaded # 0) =>
          <<unaccel_seq, accel_seq>> = globalxx(Chars(unaccel_events), Chars(accel_events))
    /\ (pc = "warp" /\ loaded # 0) => wp = dtw(unaccel.data, accel.data).wp

ExampleABC ==
    /\ Suffix(unaccel.path) = ".mid" /\ Suffix(accel.path) = ".mid"
    /\ loaded = 0
    /\ Len(unaccel_events) = 3 /\ Len(accel_events) = 2
    /\ Cardinality({EvNote(unaccel_events[k]) : k \in 1..3}) = 3
    /\ EvNote(accel_events[1]) = EvNote(unaccel_events[1])
    /\ EvNote(accel_events[2]) = EvNote(unaccel_events[3])

(* C7: for reference categories A, B, C (all different) and target         *)
(* categories A, C the alignment is A,B,C over A,gap,C, and once the walk  *)
(* is over the correspondence has entries at the reference ticks of A and  *)
(* of C and at no other tick.                                              *)
C7_ExampleAlignment ==
    ExampleABC =>
       /\ pc = "walk" =>
             /\ unaccel_seq = Chars(unaccel_events)
             /\ accel_seq = <<NoteToChar(EvNote(accel_events[1])), gap_char,
                              NoteToChar(EvNote(accel_events[2]))>>
       /\ (pc = "velocity" \/ Finished) =>
             DOMAIN matched_events_by_unaccel_ticks =
                {EvTick(unaccel_events[1]), EvTick(unaccel_events[3])}

OverlapIdentical(X, Y) ==
    \A k \in 1..Len(X) : k <= Len(Y) => X[k] = Y[k]

StrictlyMonotonePath(p) ==
    \A k \in 1..(Len(p) - 1) : p[k][1] < p[k + 1][1] /\ p[k][2] < p[k + 1][2]

SingleSteps(p) ==
    \A k \in 1..(Len(p) - 1) :
        <<p[k + 1][1] - p[k][1], p[k + 1][2] - p[k][2]>> \in Range(step_sizes_sigma)

(* C8 as stated: for matrices of 5 and 7 columns that agree where they     *)
(* overlap, the warping path has 7 to 11 entries and both indices increase *)
(* strictly from each entry to the next.                                   *)
C8_StrictlyMonotone ==
    (/\ pc = "warp" /\ loaded = 0
     /\ Len(unaccel.data) = 5 /\ Len(accel.data) = 7
     /\ OverlapIdentical(unaccel.data, accel.data))
    => /\ Len(wp) \in 7..11
       /\ StrictlyMonotonePath(WalkOrder(wp))

(* C8 amended: for matrices of m and n columns the warping path has        *)
(* between max(m,n) and m+n-1 entries, and from each entry to the next one *)
(* index or both advance by exactly one (no index ever decreases).         *)
C8_PathLength ==
    (pc = "warp" /\ loaded = 0) =>
       LET m == Len(unaccel.data)
           n == Len(accel.data)
       IN  /\ Len(wp) \in Max2(m, n)..(m + n - 1)
           /\ SingleSteps(WalkOrder(wp))

C8_Witness ==
    /\ pc = "warp" /\ loaded = 0
    /\ Len(unaccel.data) = 5 /\ Len(accel.data) = 7
    /\ OverlapIdentical(unaccel.data, accel.data)
    /\ Range(unaccel.data) = ChromaLevels
    /\ Len(wp) \in 7..11

InsufficientData ==
    pc = "velocity" /\ tick_index > Len(SortedTicks) /\ Len(accel_v) < 2

(* C9: when the loop over the correspondence has left fewer than two       *)
(* velocity samples, the estimator ends with the statistics error; the     *)
(* filter has produced no smoothed value and no regression is reported.    *)
C9_InsufficientDataError ==
    [][InsufficientData =>
          /\ pc' = "raised" /\ outcome' = "StatisticsError"
          /\ smoothed_v' = <<>> /\ regressions' = {}]_vars

C9_Witness ==
    /\ pc = "raised" /\ outcome = "StatisticsError"
    /\ Len(accel_v) = 1
    /\ smoothed_v = <<>> /\ regressions = {}

(* C10: with fewer than two velocity samples the run still completes: it   *)
(* returns normally, keeping the correspondence and reporting no           *)
(* statistics.                                                             *)
C10_RunCompletes ==
    [][InsufficientData =>
          /\ pc' = "returned"
          /\ UNCHANGED matched_events_by_unaccel_ticks
          /\ regressions' = {}]_vars

EventNotes(events) == {EvNote(events[k]) : k \in 1..Len(events)}

(* C11: when the category that serves as the gap marker occurs in either   *)
(* input, the aligner refuses to run: the run returns with the encoding    *)
(* message, no alignment is computed and none is stored.                   *)
C11_GapSentinelRefused ==
    (/\ HYPHEN \in EventNotes(unaccel_events) \cup EventNotes(accel_events)
     /\ pc \notin {"start", "align"})
    => /\ pc = "returned" /\ outcome = "gap char in use"
       /\ unaccel_seq = <<>> /\ accel_seq = <<>>
       /\ disk = <<>>

ConsistencyError == outcome = "MIDI numbers don't align"

(* C12: a run that met a consistency error has stopped at that position,   *)
(* has run no velocity estimation, and has left no partial output: nothing *)
(* was written to the mismatches file.                                     *)
C12_ConsistencyAbort ==
    ConsistencyError =>
       /\ pc = "returned"
       /\ accel_t = <<>> /\ accel_v = <<>>
       /\ smoothed_v = <<>> /\ regressions = {}
       /\ misalignment_file = <<>>

BothAudio == Suffix(unaccel.path) = ".mp3" /\ Suffix(accel.path) = ".mp3"

ReferenceSymbolic == Suffix(unaccel.path) = ".mid"

(* C13: a run goes through one aligner only, chosen by the kind of the     *)
(* inputs: the time-warp aligner when both are audio, the discrete aligner *)
(* when the reference is symbolic.  For an audio reference with a symbolic *)
(* target neither runs, and the run returns with no alignment, no warping  *)
(* path, no correspondence, no velocity sample and nothing stored.         *)
C13_OneAlignerByModality ==
    /\ BothAudio =>
          /\ pc \notin {"align", "walk"}
          /\ unaccel_seq = <<>> /\ accel_seq = <<>>
          /\ (pc \in {"warp", "velocity"} => wp # <<>>)
    /\ ReferenceSymbolic =>
          /\ pc \notin {"dtw", "warp"}
          /\ wp = <<>>
          /\ (pc \in {"walk", "velocity"} => unaccel_seq # <<>>)
    /\ (~BothAudio /\ ~ReferenceSymbolic) =>
          /\ pc \in {"start", "returned"}
          /\ (pc = "returned" => outcome = "unsupported input types")
          /\ unaccel_seq = <<>> /\ accel_seq = <<>> /\ wp = <<>>
          /\ matched_events_by_unaccel_ticks = <<>>
          /\ accel_v = <<>> /\ smoothed_v = <<>> /\ regressions = {}
          /\ disk = <<>>

C13_Witness ==
    /\ Suffix(unaccel.path) = ".mp3" /\ Suffix(accel.path) = ".mid"
    /\ pc = "returned" /\ outcome = "unsupported input types"

RECURSIVE LongestCommonSubsequence(_, _)
LongestCommonSubsequence(a, b) ==
    IF a = <<>> \/ b = <<>> THEN 0
    ELSE IF Head(a) = Head(b) THEN 1 + LongestCommonSubsequence(Tail(a), Tail(b))
    ELSE Max2(LongestCommonSubsequence(Tail(a), b), LongestCommonSubsequence(a, Tail(b)))

SameCategoryPositions(seqA, seqB) ==
    {k \in 1..Len(seqA) : seqA[k] # gap_char /\ seqB[k] # gap_char /\ seqA[k] = seqB[k]}

ColumnDistance(X, Y, cell) == Abs(X[cell[1] + 1] - Y[cell[2] + 1])

RECURSIVE PathCost(_, _, _)
PathCost(X, Y, path) ==
    IF path = <<>> THEN 0
    ELSE ColumnDistance(X, Y, Head(path)) + PathCost(X, Y, Tail(path))

Min3(a, b, c) == IF a <= b /\ a <= c THEN a ELSE IF b <= c THEN b ELSE c

(* the least cost of a path to each cell of reference column r, from the   *)
(* least costs for column r - 1                                            *)
RECURSIVE LeastCostColumn(_, _, _, _, _)
LeastCostColumn(X, Y, r, before, sofar) ==
    IF Len(sofar) = Len(Y) THEN sofar
    ELSE
      LET c == Len(sofar) + 1
          d == ColumnDistance(X, Y, <<r - 1, c - 1>>)
          least == IF r = 1 /\ c = 1 THEN 0
                   ELSE IF r = 1 THEN sofar[c - 1]
                   ELSE IF c = 1 THEN before[1]
                   ELSE Min3(before[c - 1], before[c], sofar[c - 1])
      IN  LeastCostColumn(X, Y, r, before, Append(sofar, d + least))

RECURSIVE LeastCostFrom(_, _, _, _)
LeastCostFrom(X, Y, r, before) ==
    IF r > Len(X) THEN before[Len(Y)]
    ELSE LeastCostFrom(X, Y, r + 1, LeastCostColumn(X, Y, r, before, <<>>))

LeastPathCost(X, Y) == LeastCostFrom(X, Y, 1, <<>>)

(* C15: consecutive entries of a computed warping path differ by one of    *)
(* the steps (+1,+1), (+1,0), (0,+1), and the sum of the column distances  *)
(* along the path is the least over all such paths from (0,0) to           *)
(* (m-1,n-1).                                                              *)
C15_LeastCostPath ==
    (pc = "warp" /\ loaded = 0) =>
       /\ SingleSteps(WalkOrder(wp))
       /\ PathCost(unaccel.data, accel.data, wp) = LeastPathCost(unaccel.data, accel.data)

C15_Witness ==
    /\ pc = "warp" /\ loaded = 0
    /\ Len(unaccel.data) >= 3 /\ Len(accel.data) >= 3
    /\ PathCost(unaccel.data, accel.data, wp) > 0
    /\ \E k \in 1..Len(wp) : ColumnDistance(unaccel.data, accel.data, wp[k]) = 0
    /\ \E k \in 1..(Len(wp) - 1) : wp[k][1] = wp[k + 1][1]
    /\ \E k \in 1..(Len(wp) - 1) : wp[k][2] = wp[k + 1][2]

NonGapCount(seq, k) == Cardinality({j \in 1..k : seq[j] # gap_char})

CursorsCountNonGaps ==
    /\ i - 1 <= Len(unaccel_seq) /\ i - 1 <= Len(accel_seq)
    /\ unaccel_counter = NonGapCount(unaccel_seq, i - 1)
    /\ accel_counter = NonGapCount(accel_seq, i - 1)

(* a step of the walk that read the two Events: any step but the break *)
EventsRead == pc = "walk" /\ i <= Len(unaccel_seq) /\ pc' # "velocity"

BothNonGap(k) == unaccel_seq[k] # gap_char /\ accel_seq[k] # gap_char

(* the entry of alignment position k: the tick and time of the reference   *)
(* Event and the time of the target Event at the cursors of that position  *)
EntryAt(k) ==
    LET unaccel_event == unaccel_events[NonGapCount(unaccel_seq, k)]
        accel_event == accel_events[NonGapCount(accel_seq, k)]
    IN  <<unaccel_event[2], unaccel_event[3], accel_event[3]>>

RECURSIVE EntriesUpTo(_)
EntriesUpTo(k) ==
    IF k = 0 THEN <<>>
    ELSE IF BothNonGap(k) THEN Append(EntriesUpTo(k - 1), EntryAt(k))
    ELSE EntriesUpTo(k - 1)

RECURSIVE PairsAt(_, _)
PairsAt(entries, tick) ==
    IF entries = <<>> THEN <<>>
    ELSE IF Head(entries)[1] = tick
         THEN <<<<Head(entries)[2], Head(entries)[3]>>>> \o PairsAt(Tail(entries), tick)
    ELSE PairsAt(Tail(entries), tick)

Grouped(entries) ==
    [tick \in {entries[k][1] : k \in 1..Len(entries)} |-> PairsAt(entries, tick)]

(* C17: when the walk over a computed alignment has ended without a        *)
(* consistency error, the correspondence holds exactly one entry for each  *)
(* position where neither side is a gap, the break at the end of a list    *)
(* losing none: the entry is under the tick of the reference Event at the  *)
(* cursor with that Event's time and the target Event's time.  Positions   *)
(* with a gap add nothing.                                                 *)
C17_OneEntryPerMatch ==
    (pc = "velocity" /\ ReferenceSymbolic /\ loaded = 0) =>
       /\ arrival = EntriesUpTo(Len(unaccel_seq))
       /\ matched_events_by_unaccel_ticks = Grouped(arrival)

C17_Witness ==
    /\ pc = "velocity" /\ ReferenceSymbolic /\ loaded = 0
    /\ i <= Len(unaccel_seq)
    /\ gap_char \in Range(unaccel_seq) /\ gap_char \in Range(accel_seq)
    /\ Len(arrival) = 1

(* the path step k (k >= 2, in walk order) differs from the step before it *)
(* in both indices                                                         *)
AdvancesBoth(p, k) == p[k][1] # p[k - 1][1] /\ p[k][2] # p[k - 1][2]

(* C18: every entry of a correspondence built from a warping path comes    *)
(* from a path step whose reference and target index both differ from the  *)
(* preceding step's; the entries increase strictly in both indices, and    *)
(* each reference tick holds a single pair.                                *)
C18_EmittedStepsAdvanceBoth ==
    (pc = "velocity" /\ BothAudio) =>
       LET p == WalkOrder(wp)
       IN  /\ \A e \in 1..Len(arrival) :
                \E k \in 2..Len(p) :
                    p[k] = <<arrival[e][2], arrival[e][3]>> /\ AdvancesBoth(p, k)
           /\ \A e \in 1..(Len(arrival) - 1) :
                arrival[e][2] < arrival[e + 1][2] /\ arrival[e][3] < arrival[e + 1][3]
           /\ \A tick \in DOMAIN matched_events_by_unaccel_ticks :
                Len(matched_events_by_unaccel_ticks[tick]) = 1

C18_Witness ==
    /\ pc = "velocity" /\ BothAudio
    /\ Len(arrival) >= 2
    /\ Len(arrival) < Len(wp) - 2

(* a step of the estimator's loop that retains its tick *)
TickRetained ==
    /\ pc = "velocity" /\ tick_index <= Len(SortedTicks)
    /\ SortedTicks[tick_index] - last_unaccel_tick >= sample_interval

FirstPair == matched_events_by_unaccel_ticks[SortedTicks[tick_index]][1]

(* C19: the pairs recorded at one reference tick are all kept under that   *)
(* tick, in the order they were recorded, and the estimator takes the      *)
(* times of a tick from the first pair recorded under it.                  *)
C19_FirstPairOfEachTick ==
    /\ [](matched_events_by_unaccel_ticks = Grouped(arrival))
    /\ [][TickRetained =>
            /\ last_unaccel_time' = FirstPair[1]
            /\ last_accel_time' = FirstPair[2]
            /\ (accel_t' # accel_t => Last(accel_t') = <<FirstPair[2], 60>>)]_vars

C19_Witness ==
    /\ pc = "velocity" /\ tick_index > 1
    /\ \E tick \in DOMAIN matched_events_by_unaccel_ticks :
          /\ Len(matched_events_by_unaccel_ticks[tick]) = 2
          /\ matched_events_by_unaccel_ticks[tick][1][2] # matched_events_by_unaccel_ticks[tick][2][2]
          /\ last_unaccel_tick = tick
          /\ last_accel_time = matched_events_by_unaccel_ticks[tick][1][2]
          /\ accel_t = <<<<matched_events_by_unaccel_ticks[tick][1][2], 60>>>>

(* C20: the estimator visits the reference ticks in increasing order and   *)
(* retains a tick only when it is at least sample_interval past the last   *)
(* retained tick, tick 0 at the start: two ticks retained one after the    *)
(* other are at least sample_interval apart, and no tick below             *)
(* sample_interval is retained.                                            *)
C20_RetainedTicksApart ==
    /\ [](/\ \A k \in 1..(Len(SortedTicks) - 1) : SortedTicks[k] < SortedTicks[k + 1]
          /\ Range(SortedTicks) = DOMAIN matched_events_by_unaccel_ticks
          /\ (pc = "velocity" => last_unaccel_tick = 0 \/ last_unaccel_tick >= sample_interval))
    /\ [][(pc = "velocity" /\ pc' = "velocity") =>
            /\ tick_index' = tick_index + 1
            /\ \/ /\ SortedTicks[tick_index] - last_unaccel_tick >= sample_interval
                  /\ last_unaccel_tick' = SortedTicks[tick_index]
               \/ /\ SortedTicks[tick_index] - last_unaccel_tick < sample_interval
                  /\ UNCHANGED <<last_unaccel_tick, accel_t, accel_v>>]_vars

C20_Witness ==
    /\ pc = "velocity" /\ tick_index = 3
    /\ SortedTicks[1] - 0 >= sample_interval
    /\ SortedTicks[2] - SortedTicks[1] < sample_interval
    /\ last_unaccel_tick = SortedTicks[1]
    /\ Len(accel_v) = 1

(* the index in SortedTicks of the last tick retained among the first k,   *)
(* 0 when none is: a tick is retained when it lies at least                *)
(* sample_interval past the one retained before it, tick 0 at the start    *)
RECURSIVE LastRetained(_)
LastRetained(k) ==
    IF k = 0 THEN 0
    ELSE LET before == LastRetained(k - 1)
             base == IF before = 0 THEN 0 ELSE SortedTicks[before]
         IN  IF SortedTicks[k] - base >= sample_interval THEN k ELSE before

(* the times of the previous retained tick, 0 and 0 at the start *)
Baseline ==
    LET k == LastRetained(tick_index - 1)
    IN  IF k = 0 THEN <<0, 0>> ELSE matched_events_by_unaccel_ticks[SortedTicks[k]][1]

BothTimesAdvance == FirstPair[1] > Baseline[1] /\ FirstPair[2] > Baseline[2]

(* C21: at a retained tick a velocity sample is emitted exactly when the   *)
(* reference time and the target time of the tick are both strictly        *)
(* greater than those of the previous retained tick (0 at the start),      *)
(* emitted or not; the retained tick becomes the baseline of the next one  *)
(* whether or not it yields a sample.                                      *)
C21_EmitIffBothTimesAdvance ==
    /\ [](pc = "velocity" => <<last_unaccel_time, last_accel_time>> = Baseline)
    /\ [][TickRetained =>
            /\ BothTimesAdvance =>
                  /\ Len(accel_v') = Len(accel_v) + 1
                  /\ Len(accel_t') = Len(accel_t) + 1
            /\ ~BothTimesAdvance => UNCHANGED <<accel_v, accel_t>>
            /\ <<last_unaccel_time', last_accel_time'>> = FirstPair]_vars

C21_Witness ==
    /\ pc = "velocity" /\ per_foot
    /\ SortedTicks = <<FootTicks, 2 * FootTicks>>
    /\ tick_index = 3
    /\ matched_events_by_unaccel_ticks[FootTicks][1] = <<0, 2>>
    /\ matched_events_by_unaccel_ticks[2 * FootTicks][1] = <<1, 3>>
    /\ accel_v = <<<<FootTicks * 60, FootTicks * (3 - 2)>>>>

(* C22: the filter takes the velocity samples in their order: after the    *)
(* filter is set up, each sample after the first gets exactly one predict  *)
(* call followed by exactly one update call with that sample, and the      *)
(* smoothed series holds one value per raw sample, the first raw velocity  *)
(* first and then the value read after the update of each later sample,    *)
(* so both series have the same length.                                    *)
C22_PredictThenUpdatePerSample ==
    outcome = "completed" =>
        LET calls == kalman_filter.calls
            n == Len(accel_v)
        IN  /\ Len(calls) = 1 + 2 * (n - 1)
            /\ \A k \in 2..n :
                  /\ calls[2 * k - 2].call = "predict"
                  /\ calls[2 * k - 1].call = "update"
                  /\ calls[2 * k - 1].z = k
            /\ Len(smoothed_v) = n
            /\ smoothed_v[1] = Sample(1)
            /\ \A k \in 2..n : smoothed_v[k].from = "update" /\ smoothed_v[k].k = k

C22_Witness ==
    /\ outcome = "completed"
    /\ Len(accel_v) = 3
    /\ Len(smoothed_v) = 3
    /\ Len(kalman_filter.calls) = 5

(* the times of a timeline, in its order, found at position `field' of its *)
(* events                                                                  *)
TimesNonDecreasing(events, field) ==
    \A k \in 1..(Len(events) - 1) : events[k][field] <= events[k + 1][field]

(* C23: in every timeline read from a MIDI file the times of the events    *)
(* never decrease along the tick order, whatever tempo changes and notes   *)
(* the track holds and wherever the tempo changes fall.                    *)
C23_TimeNonDecreasing ==
    /\ pc = "align" => TimesNonDecreasing(unaccel_events, 3)
    /\ pc = "compare" => TimesNonDecreasing(unaccel_events, 4)

(* the part of C23 that get_midi_timings of align-and-compare.py meets *)
AccumulatedTimeNonDecreasing ==
    pc = "align" => TimesNonDecreasing(unaccel_events, 3)

(* C24: the estimator samples every tick (interval 1) when the             *)
(* correspondence was built from the warping path of two audio files, and  *)
(* every foot (interval 3600) when it was built from a discrete alignment. *)
C24_IntervalByAligner ==
    pc = "velocity" => sample_interval = (IF BothAudio THEN FineInterval ELSE FootTicks)

(* C25: the encoding of a category as an alignment symbol can be undone    *)
(* over the whole alphabet 0..127: decoding a symbol of an aligned         *)
(* sequence gives back the category it encodes, and the symbols of two     *)
(* different categories are different.                                     *)
C25_EncodingInvertible ==
    pc = "walk" =>
        LET c == EvNote(unaccel_events[1])
            d == EvNote(accel_events[1])
        IN  /\ \A k \in 1..Len(unaccel_seq) :
                  unaccel_seq[k] # gap_char => CharToNote(unaccel_seq[k]) = c
            /\ \A k \in 1..Len(accel_seq) :
                  accel_seq[k] # gap_char => CharToNote(accel_seq[k]) = d
            /\ c # d => NoteToChar(c) # NoteToChar(d)

(* C26: when the correspondence has yielded two or more velocity samples,  *)
(* exactly two included, the estimator runs to its end without an error    *)
(* and reports the regression of the raw and of the smoothed series.       *)
C26_TwoSamplesSuffice ==
    (Finished /\ Len(accel_v) >= 2) =>
        /\ outcome = "completed"
        /\ regressions = {"raw", "smoothed"}
        /\ Len(smoothed_v) = Len(accel_v)

(* C27: the correspondence of two audio files is built from every entry of *)
(* the warping path, from the origin cell to the final cell: each step     *)
(* whose reference and target index both differ from the preceding step's  *)
(* gives an entry of the correspondence, the step into the final cell      *)
(* included.                                                               *)
C27_EveryPathStepExamined ==
    (pc = "velocity" /\ BothAudio) =>
       LET p == WalkOrder(wp)
       IN  \A k \in 2..Len(p) :
              AdvancesBoth(p, k) =>
                 \E e \in 1..Len(arrival) : <<arrival[e][2], arrival[e][3]>> = p[k]

(* the part of C27 that the loop meets: every step but the one into the    *)
(* final cell                                                              *)
AllStepsButFinalExamined ==
    (pc = "velocity" /\ BothAudio) =>
       LET p == WalkOrder(wp)
       IN  \A k \in 2..(Len(p) - 1) :
              AdvancesBoth(p, k) =>
                 \E e \in 1..Len(arrival) : <<arrival[e][2], arrival[e][3]>> = p[k]

(* C28: over every correspondence with non-negative ticks and times, no    *)
(* division of the estimator's loop has a zero divisor (the loop never     *)
(* ends with a division error), and every velocity it emits, the feet of   *)
(* the reference tick delta over the target time delta, is strictly        *)
(* positive.                                                               *)
C28_NoZeroDivisorPositiveVelocity ==
    /\ [](\A k \in 1..Len(accel_v) : accel_v[k][1] > 0 /\ accel_v[k][2] > 0)
    /\ [][(pc = "velocity" /\ tick_index <= Len(SortedTicks)) =>
            /\ pc' = "velocity"
            /\ Len(accel_v') > Len(accel_v) =>
                  /\ 0 \notin Divisors(FirstPair[1], FirstPair[2])
                  /\ Last(accel_v')[1] = (SortedTicks[tick_index] - last_unaccel_tick) * 60
                  /\ Last(accel_v')[2] = FootTicks * (FirstPair[2] - last_accel_time)]_vars

C28_Witness ==
    /\ pc = "velocity" /\ ~per_foot
    /\ SortedTicks = <<FootTicks \div 2, FootTicks, 2 * FootTicks>>
    /\ tick_index = 4
    /\ matched_events_by_unaccel_ticks[FootTicks \div 2][1] = <<1, 1>>
    /\ matched_events_by_unaccel_ticks[FootTicks][1] = <<2, 1>>
    /\ matched_events_by_unaccel_ticks[2 * FootTicks][1] = <<3, 2>>
    /\ Len(accel_v) = 2

(* C29: whatever categories the aligned sequences hold (note numbers 0 to  *)
(* 127 of two MIDI files, pitch classes 0 to 11 against an audio target),  *)
(* a step of the discrete walk goes on with the walk, hands over to the    *)
(* estimator, or stops the run with the consistency error; it never fails  *)
(* otherwise, as on a missing note name while logging an event.            *)
C29_WalkEndsCleanly ==
    [][pc = "walk" =>
          \/ pc' \in {"walk", "velocity"}
          \/ pc' = "returned" /\ outcome' = "MIDI numbers don't align"]_vars

(* the row of the filter state that the measurement function H reads *)
ObservedRow == CHOOSE r \in 1..Len(H) : H[r] = 1

(* the smoothed value of each sample after the first is the observed row   *)
(* of the state left by that sample's update                               *)
RecordedIsObserved ==
    outcome = "completed" =>
        \A k \in 2..Len(smoothed_v) :
            smoothed_v[k] = kalman_filter.calls[2 * k - 1].x[ObservedRow]

(* C30: the filter starts with the first velocity sample in the row of its *)
(* state that the measurement function observes, and the smoothed velocity *)
(* recorded at each sample is that same observed row of the state.         *)
C30_ObservedComponent ==
    outcome = "completed" =>
        /\ kalman_filter.calls[1].call = "x ="
        /\ kalman_filter.calls[1].x[ObservedRow] = Sample(1)
        /\ \A k \in 2..Len(smoothed_v) :
              smoothed_v[k] = kalman_filter.calls[2 * k - 1].x[ObservedRow]

====
